---- MODULE Spec2Model ----
(***************************************************************************)
(* Payment order orchestration of the WhatsApp sales agent.                *)
(*                                                                         *)
(* The model follows SalesAgentService (the x402 revision, second class in *)
(* src/src/whatsapp/agents/sales-agent.service.ts), the webhook controller *)
(* (src/unnamed/part_005), the payment-page proxy, OrdersSyncService and   *)
(* CompanyIntegrationsService.                                             *)
(*                                                                         *)
(* The service runs on one JavaScript event loop: code between two awaits  *)
(* is atomic, and every await is a point where another handler may run.    *)
(* The webhook handlers make all their in-memory writes before their first *)
(* await, so each is one action.  The buyer-message and second-factor      *)
(* handlers read and write the order on both sides of awaits, so they are  *)
(* split into one action per segment; an in-flight handler is a task.      *)
(* Consecutive awaits between which the handler touches no order field     *)
(* other than userId / supabaseOrderId are merged into one segment.        *)
(***************************************************************************)
EXTENDS Integers, Sequences, FiniteSets, TLC

\* ------------------------------------------------------------------ bounds
MaxOrders == 2
MaxClock == 1
MaxJobs == 2
MaxRows == 2
\* Inbound triggers (buyer messages, admin replies, webhooks, page
\* confirmations) handled in one behaviour.
MaxMessages == 2
MaxWebhooks == 2
\* The same for the runs with the durable store enabled.
MaxDurableMessages == 2
MaxDurableWebhooks == 1
\* The same for the runs long enough for a buyer to pay and an administrator
\* to answer the bank: three messages around one webhook.
MaxLongMessages == 3
MaxLongWebhooks == 1
\* Cap of the per-order count of delivered payment-confirmed notifications.
MaxSent == 2

\* Bounds of the runs with two handlers in flight at once.
MaxPairMessages == 2
MaxPairWebhooks == 1
\* Bounds of the runs with two tenants.
MaxTenantMessages == 2
MaxTenantWebhooks == 1
\* Administrator replies those runs take on top of the buyer messages.
MaxTenantReplies == 1

\* --------------------------------------------------------------- constants
Buyers == {"B1"}
Methods == {"fiat", "crypto"}

\* PaymentState enum
CART == "STATE_CART"
AWAITING_QR == "STATE_AWAITING_QR"
QR_SENT == "STATE_QR_SENT"
VERIFYING == "STATE_VERIFYING"
COMPLETED == "STATE_COMPLETED"
PaymentState == {CART, AWAITING_QR, QR_SENT, VERIFYING, COMPLETED}

\* Amounts an extractor can hand over: 0 stands for "no amount" (undefined,
\* NaN or 0, all falsy in the code); parseFloat can also yield a negative.
Amounts == {-1, 0, 1}

\* Durable row ids live in a different id space than the in-memory uuids.
RowBase == MaxOrders + 1
\* An order id carried by a payload that no map knows.
UnknownId == RowBase + MaxRows + 1
\* A rail job id no order carries.
UnknownJob == MaxJobs + 1

LegacyEvents == {"QR_GENERATED", "VERIFICATION_RESULT", "LOGIN_2FA_REQUIRED", "OTHER"}
X402Events == {"X402_PAYMENT_VERIFIED", "X402_PAYMENT_SETTLED",
               "X402_PAYMENT_CONFIRMED", "FIAT_PAYMENT_CONFIRMED",
               "X402_PAYMENT_FAILED", "FIAT_PAYMENT_FAILED",
               "X402_PAYMENT_EXPIRED", "OTHER"}
Intents == {"checkout", "confirm_paid", "status", "other"}

\* UserRole enum
ADMIN == "ROLE_ADMIN"
CLIENT == "ROLE_CLIENT"

\* Intent enum, and "NONE" for a text detectIntent finds no keyword in
BOOKING == "INTENT_BOOKING"
SHOPPING == "INTENT_SHOPPING"
REPORTING == "INTENT_REPORTING"
TWO_FA == "INTENT_2FA_REPLY"
RouterIntents == {BOOKING, SHOPPING, REPORTING, TWO_FA, "NONE"}

\* ADMIN_PHONE_NUMBER, the administrator of last resort
adminPhone == "A0"

\* companies.whatsapp_admin_phone_ids of each company, normalised
CompanyAdminIds(t) == IF t = "T1" THEN <<"A1", "A2">> ELSE <<"A3">>

\* phones of the company_users rows with role ADMIN
CompanyUserAdmins(t) == IF t = "T1" THEN <<"A2", "A4">> ELSE <<"A3">>

\* Every phone the directory or a conversation knows.
Phones == {"A0", "A1", "A2", "A3", "A4"} \cup Buyers

Range(seq) == {seq[i] : i \in 1..Len(seq)}

VARIABLES
    orders,         \* ordersById: sequence of PaymentOrder, in insertion order
    ordersByClient, \* ordersByClient: (tenant, buyer) -> order id, 0 if none
    tasks,          \* in-flight handlers suspended at an await
    now,            \* the clock read by new Date() / Date.now()
    dbEnabled,      \* SupabaseService.isEnabled()
    db,             \* public.orders rows, row id = RowBase + index
    attention,      \* company_integrations.needs_2fa_attention per tenant
    nJobs,          \* job ids issued by the rail so far
    sent,           \* per order: payment-confirmed notifications delivered
    quota,          \* inbound triggers still to be accepted, per channel
    dropped,        \* a handler has ended on its "order not found" branch
    last            \* what the most recent trigger came to (see the tags below)

vars == <<orders, ordersByClient, tasks, now, dbEnabled, db, attention, nJobs, sent, quota,
          dropped, last>>

OrderIds == 1..MaxOrders

\* Tags of last: "init" before any trigger, "step" after a segment of a
\* message handler, and for the triggers the scenarios below are about:
\*   "miss"            a webhook or page confirmation matched no order
\*   "legacy", "x402", "proxy"   a webhook or page confirmation was applied
\*   "x402_job"        a CONFIRMED event without orderId was applied to the
\*                     order carrying its job id
\*   "proxy_skip"      a page confirmation found its order COMPLETED
\*   "twofa"           LOGIN_2FA_REQUIRED was applied; "twofa_verifying" when
\*                     the order was in VERIFYING
\*   "tfa_accepted"    the rail accepted an administrator's code;
\*                     "round_trip" when it answers a "twofa_verifying"
\*   "denied"          the router refused an administrator-only intent
\*   "tfa_rejected"    the rail refused an administrator's code
\*   "pay_failed"      processCheckout got no negotiation from the rail
\*   "verify_failed"   the inline verification of "I paid" did not succeed
\*   "proxy_refused"   a page request was relayed without touching an order

\* The tenants of a deployment are the companies it keeps a flag for, and
\* the handlers that can be in flight are the slots of tasks.
Tenants == DOMAIN attention
Slots == DOMAIN tasks

NoSettlement == [set |-> FALSE, success |-> FALSE, type |-> "none"]
Settlement(ok, ty) == [set |-> TRUE, success |-> ok, type |-> ty]

\* details: REF-<tenant prefix>-<Date.now()> or "Compra de <product name>"
RefDetails(t, n) == [kind |-> "REF", pre |-> t, n |-> n]
ProductDetails == [kind |-> "PROD", pre |-> "", n |-> 0]
NoDetails == [kind |-> "NONE", pre |-> "", n |-> 0]

Idle == [pc |-> "idle", order |-> 0, tenant |-> "", sender |-> ""]
Task(pc, o, t, b) == [pc |-> pc, order |-> o, tenant |-> t, sender |-> b]

Act(to, kind) == [to |-> to, kind |-> kind]

Min(a, b) == IF a < b THEN a ELSE b

\* ------------------------------------------------------------ ledger reads

\* A lookup that falls back to the oldest order when the id is unknown.
getByIdOrFirst(id) == IF id \in 1..Len(orders) THEN id ELSE Min(1, Len(orders))

\* ordersById.get(id)
getById(id) == IF id \in 1..Len(orders) THEN id ELSE 0

\* [...ordersById.values()].find(pred): first match in insertion order
FindFirst(hits) ==
    IF hits = {} THEN 0 ELSE CHOOSE i \in hits : \A j \in hits : i <= j

\* buildClientKey
buildClientKey(t, b) == <<t, b>>

\* createOrder: the PaymentOrder literal
NewOrder(t, b) ==
    [companyId |-> t, clientPhone |-> b, state |-> CART, amount |-> 0,
     details |-> RefDetails(t, now), awaitingTwoFa |-> FALSE, lastUpdate |-> now,
     x402JobId |-> 0, x402Negotiation |-> 0, paymentUrl |-> 0,
     x402Settlement |-> NoSettlement, userId |-> FALSE, supabaseOrderId |-> 0]

\* ------------------------------------------------------------------- Init
\* State after construction; enabled tells whether SUPABASE_DB_URL is set,
\* messages and webhooks how many triggers the run takes.
InitOn(enabled, messages, webhooks, replies, slots, tenants, start) ==
    /\ orders = <<>>
    /\ ordersByClient = [k \in tenants \X Buyers |-> 0]
    /\ tasks = [s \in slots |-> Idle]
    /\ now = start
    /\ dbEnabled = enabled
    /\ db = <<>>
    /\ attention = [t \in tenants |-> FALSE]
    /\ nJobs = 0
    /\ sent = [o \in OrderIds |-> 0]
    /\ quota = [message |-> messages, webhook |-> webhooks, reply |-> replies]
    /\ dropped = FALSE
    /\ last = "init"

\* One handler in flight at a time, one tenant (without the store every
\* phone number id resolves to the fallback company).
InitWith(enabled, messages, webhooks) ==
    InitOn(enabled, messages, webhooks, 0, {1}, {"T1"}, 0)

\* The store is optional: the service runs without it when the variable is unset.
Init ==
    \/ InitWith(FALSE, MaxMessages, MaxWebhooks)
    \/ InitWith(TRUE, MaxDurableMessages, MaxDurableWebhooks)
    \/ InitWith(FALSE, MaxLongMessages, MaxLongWebhooks)

\* Time passes between two reads of the clock.
Tick ==
    /\ now < MaxClock
    /\ now' = now + 1
    /\ UNCHANGED <<orders, ordersByClient, tasks, dbEnabled, db, attention, nJobs, sent, quota, dropped,
                   last>>


\* ---------------------------------------------------------- durable store

\* OrdersSyncService.mapState
mapState(st) ==
    CASE st = AWAITING_QR -> "AWAITING_QR"
      [] st = QR_SENT -> "QR_SENT"
      [] st = VERIFYING -> "VERIFYING_PAYMENT"
      [] st = COMPLETED -> "COMPLETED"
      [] OTHER -> "CART"

\* Row of public.orders holding the conflict key (company_id, details), or 0.
RowOf(t, d) ==
    LET hits == {i \in 1..Len(db) : db[i].company = t /\ db[i].details = d}
    IN IF hits = {} THEN 0 ELSE CHOOSE i \in hits : TRUE

\* The metadata column: 0 (NoSettlement) is a key the JSON does not have.
NoMeta == [job |-> 0, url |-> 0, neg |-> 0, settlement |-> NoSettlement]

\* syncDraft's metadata object; JSON.stringify leaves out the undefined
\* fields, and the object never has a settlement.
draftMetadata(ord) ==
    [job |-> ord.x402JobId, url |-> ord.paymentUrl, neg |-> ord.x402Negotiation,
     settlement |-> NoSettlement]

\* updateStatus's metadata object: a key for every field the order has.
statusMetadata(ord) ==
    [job |-> ord.x402JobId, url |-> ord.paymentUrl, neg |-> ord.x402Negotiation,
     settlement |-> ord.x402Settlement]

\* metadata || patch: the keys of patch win, the others stay.
mergeMetadata(meta, patch) ==
    [f \in DOMAIN meta |-> IF patch[f] # NoMeta[f] THEN patch[f] ELSE meta[f]]

\* A guard that lets an order without amount through.
syncDraftSkipsUnidentified(ord) == ~dbEnabled \/ ~ord.userId

\* syncDraft's guard: no durable write for these orders.
syncDraftSkips(ord) == ~dbEnabled \/ ~ord.userId \/ ord.amount = 0

\* The store can take the upsert (the row exists or the table has room).
syncDraftFits(ord) == RowOf(ord.companyId, ord.details) # 0 \/ Len(db) < MaxRows

\* Table after syncDraft's INSERT ... ON CONFLICT (company_id, details).
syncDraftRows(ord) ==
    LET r == RowOf(ord.companyId, ord.details)
        row == [company |-> ord.companyId, details |-> ord.details,
                status |-> mapState(ord.state), meta |-> draftMetadata(ord)]
    IN IF r = 0 THEN Append(db, row) ELSE [db EXCEPT ![r] = row]

\* Value syncDraft returns when its query succeeds.
syncDraftId(ord) ==
    LET r == RowOf(ord.companyId, ord.details)
    IN RowBase + (IF r = 0 THEN Len(db) + 1 ELSE r)

\* updateStatus issues a query only for an order with a durable id.
updateStatusRuns(ord) == dbEnabled /\ ord.supabaseOrderId # 0

\* Table after updateStatus's UPDATE ... WHERE id = supabaseOrderId.
updateStatusRows(rows, ord) ==
    LET r == ord.supabaseOrderId - RowBase
    IN IF r \in 1..Len(rows)
       THEN [rows EXCEPT ![r].status = mapState(ord.state),
                         ![r].meta = mergeMetadata(@, statusMetadata(ord))]
       ELSE rows

\* ensureOrderUser queries the directory only while the order has no user.
ensureRuns(ord) == dbEnabled /\ ~ord.userId

\* markTwoFactorAttention: the flag after the upsert.
markTwoFactorAttention(att, t, flag) == [att EXCEPT ![t] = flag]

\* ------------------------------------------------------ identity directory

\* A JavaScript Set filled in the order of seq, read back as an array.
RECURSIVE Uniq(_)
Uniq(seq) ==
    IF seq = <<>> THEN <<>>
    ELSE LET head == Uniq(SubSeq(seq, 1, Len(seq) - 1))
             x == seq[Len(seq)]
         IN IF x \in Range(head) THEN head ELSE Append(head, x)

\* fetchCompanyAdminPhones, and the adminPhoneIds of the tenant context:
\* the company's list, the administrator of last resort when it is empty or
\* the store is off.
fetchCompanyAdminPhones(t) ==
    IF ~dbEnabled \/ CompanyAdminIds(t) = <<>> THEN <<adminPhone>> ELSE CompanyAdminIds(t)

\* The recipients collected in an array instead of a Set: every phone as
\* often as the two tables list it.
getAdminPhonesListed(t) ==
    fetchCompanyAdminPhones(t) \o (IF dbEnabled THEN CompanyUserAdmins(t) ELSE <<>>)

\* getAdminPhones
getAdminPhones(t) ==
    LET all == Uniq(fetchCompanyAdminPhones(t)
                    \o (IF dbEnabled THEN CompanyUserAdmins(t) ELSE <<>>))
    IN IF all = <<>> THEN <<adminPhone>> ELSE all

\* resolveRole
resolveRole(t, sender) ==
    IF sender \in Range(fetchCompanyAdminPhones(t)) THEN ADMIN
    ELSE IF dbEnabled /\ sender \in Range(CompanyUserAdmins(t)) THEN ADMIN
    ELSE IF sender = adminPhone THEN ADMIN
    ELSE CLIENT

\* ----------------------------------------------------------------- router

\* A router that takes every intent from every role.
openIntents == {}

\* AgentRouterService.adminOnlyIntents
adminOnlyIntents == {REPORTING, TWO_FA}

\* detectIntent: the first keyword family found in the text, in the order
\* booking, shopping, reporting, second factor.  words is the set of
\* families the text has a keyword of.
detectIntent(words) ==
    IF BOOKING \in words THEN BOOKING
    ELSE IF SHOPPING \in words THEN SHOPPING
    ELSE IF REPORTING \in words THEN REPORTING
    ELSE IF TWO_FA \in words THEN TWO_FA
    ELSE "NONE"

\* routeTextMessage once onboarding has let the message through: the agent
\* method the text is handed to, or the reply the router gives itself.
routeTextMessage(role, intent) ==
    IF intent = "NONE" THEN "fallback"
    ELSE IF intent \in adminOnlyIntents /\ role # ADMIN THEN "admin_required"
    ELSE CASE intent = BOOKING -> "appointmentAgent.handle"
           [] intent = SHOPPING -> "handleShoppingIntent"
           [] intent = REPORTING -> "reportingAgent.handle"
           [] intent = TWO_FA -> "handleTwoFactorReply"

\* -------------------------------------------------------- task bookkeeping
Finish(s) == tasks' = [tasks EXCEPT ![s] = Idle]
Goto(s, pc) == tasks' = [tasks EXCEPT ![s].pc = pc]
Continue(s, pc) == IF pc = "idle" THEN Finish(s) ELSE Goto(s, pc)

\* sent counter after the actions acts about order o were dispatched
Delivered(o, acts, sendOk) ==
    IF sendOk /\ \E i \in 1..Len(acts) : acts[i].kind = "confirmed"
    THEN [sent EXCEPT ![o] = Min(MaxSent, sent[o] + 1)]
    ELSE sent

\* ------------------------------------------------- handleShoppingIntent

\* A handler that opens a new order for every message.
alwaysNewOrder(cur, t) == TRUE

\* handleShoppingIntent's two tests on the indexed order cur (0: none).
needsNewOrder(cur, t) ==
    cur = 0 \/ orders[cur].state = COMPLETED \/ orders[cur].companyId # t

\* handleShoppingIntent up to its first await: look the cart up, create one
\* when there is none or the indexed one is COMPLETED.
HSI_Start(s, t, b, referred) ==
    LET k == buildClientKey(t, b)
        cur == ordersByClient[k]
        needNew == needsNewOrder(cur, t)
        o == IF needNew THEN Len(orders) + 1 ELSE cur
    IN /\ tasks[s] = Idle
       /\ quota.message > 0
       /\ needNew => Len(orders) < MaxOrders
       /\ orders' = IF needNew THEN Append(orders, NewOrder(t, b)) ELSE orders
       /\ ordersByClient' = IF needNew THEN [ordersByClient EXCEPT ![k] = o] ELSE ordersByClient
       /\ tasks' = [tasks EXCEPT ![s] = Task(IF referred THEN "ref_lookup" ELSE "hsi_extract", o, t, b)]
       /\ quota' = [quota EXCEPT !.message = @ - 1]
       /\ UNCHANGED <<now, dbEnabled, db, attention, nJobs, sent, dropped>>
       /\ last' = "step"

\* After detectAndExecuteTool and extractAmountWithGemini: a tool answer ends
\* the handler; a new amount is written to the order.
HSI_Extract(s, tool, amount) ==
    LET o == tasks[s].order
    IN /\ tasks[s].pc = "hsi_extract"
       /\ IF tool
          THEN /\ Finish(s)
               /\ UNCHANGED orders
          ELSE IF amount # 0 /\ orders[o].amount # amount
          THEN /\ orders' = [orders EXCEPT ![o].amount = amount, ![o].lastUpdate = now]
               /\ Goto(s, "hsi_sync")
          ELSE /\ Goto(s, "hsi_intent")
               /\ UNCHANGED orders
       /\ UNCHANGED <<ordersByClient, now, dbEnabled, db, attention, nJobs, sent, quota, dropped>>
       /\ last' = "step"

\* ensureOrderUser then syncDraft after an amount change.  fault = k makes
\* the k-th durable query of the segment fail (the handler rejects).
HSI_Sync(s, fault) ==
    LET o == tasks[s].order
        ord == orders[o]
        q1 == ensureRuns(ord)
        ord1 == [ord EXCEPT !.userId = ord.userId \/ dbEnabled]
        q2 == ~syncDraftSkips(ord1)
    IN /\ tasks[s].pc = "hsi_sync"
       /\ fault \in 0..2
       /\ fault = 1 => q1
       /\ fault = 2 => q2
       /\ (q2 /\ fault = 0) => syncDraftFits(ord1)
       /\ IF fault = 1
          THEN /\ Finish(s)
               /\ UNCHANGED <<orders, db>>
          ELSE IF fault = 2
          THEN /\ Finish(s)
               /\ orders' = [orders EXCEPT ![o] = ord1]
               /\ UNCHANGED db
          ELSE /\ Goto(s, "hsi_intent")
               /\ orders' = [orders EXCEPT ![o] =
                     IF q2 THEN [ord1 EXCEPT !.supabaseOrderId = syncDraftId(ord1)] ELSE ord1]
               /\ db' = IF q2 THEN syncDraftRows(ord1) ELSE db
       /\ UNCHANGED <<ordersByClient, now, dbEnabled, attention, nJobs, sent, quota, dropped>>
       /\ last' = "step"

\* processCheckout's amount guard (sales-agent.service.ts:743)
checkoutNeedsAmount(ord) == ord.amount = 0 \/ ord.amount <= 0

\* processCheckout up to its first await: the reply, or "pc_pay" to go on.
processCheckoutEntry(ord) == IF checkoutNeedsAmount(ord) THEN "need_amount" ELSE "pc_pay"

\* handleShoppingIntent's dispatch on the order's amount and state once the
\* intent is known: the reply it returns, or the segment it goes on with.
hsiDispatch(ord, intent) ==
    IF ord.amount = 0 THEN "need_amount"
    ELSE IF intent = "checkout" /\ ord.state = CART THEN processCheckoutEntry(ord)
    ELSE IF intent = "confirm_paid" /\ ord.state = QR_SENT THEN "hsi_ack"
    ELSE IF intent = "status" THEN "status"
    ELSE "default"

\* Outcome of the segment: "thrown" when ensureOrderUser's query fails.
hsiIntentReply(ord, intent, fault) == IF fault = 1 THEN "thrown" ELSE hsiDispatch(ord, intent)

\* Segment a reply leads to; every other reply ends the handler.
NextPc(reply) == IF reply \in {"pc_pay", "hsi_ack"} THEN reply ELSE "idle"

\* ensureOrderUser, detectShoppingIntentWithGemini, then the dispatch.
HSI_Intent(s, intent, fault) ==
    LET o == tasks[s].order
        ord == orders[o]
        ord1 == [ord EXCEPT !.userId = ord.userId \/ dbEnabled]
    IN /\ tasks[s].pc = "hsi_intent"
       /\ fault \in 0..1
       /\ fault = 1 => ensureRuns(ord)
       /\ orders' = IF fault = 1 THEN orders ELSE [orders EXCEPT ![o] = ord1]
       /\ Continue(s, NextPc(hsiIntentReply(ord, intent, fault)))
       /\ UNCHANGED <<ordersByClient, now, dbEnabled, db, attention, nJobs, sent, quota, dropped>>
       /\ last' = "step"

\* ------------------------------------------------------- processCheckout

\* A rail answer of any kind taken for a negotiation.
negotiationAny(rail) == TRUE

\* processCheckout goes on only with ok and negotiation data.
negotiationAccepted(rail) == rail = "negotiation"

\* A checkout reply that always announces the QR.
processCheckoutQr(rail) == "qr"

\* What processCheckout tells the buyer after the rail answered.
processCheckoutReply(rail) == IF negotiationAccepted(rail) THEN "qr" ELSE "retry"

\* processCheckout after its amount guard: syncDraft when the order has no
\* durable id, the negotiation call to the rail, then the order update.
\* rail is what initiatePayment returns: "error" (ok = false), "settled"
\* (ok without negotiation) or "negotiation" (402 with a fresh job id).
PC_Pay(s, rail, fault) ==
    LET o == tasks[s].order
        ord == orders[o]
        q1 == ord.supabaseOrderId = 0 /\ ~syncDraftSkips(ord)
        ord1 == IF q1 THEN [ord EXCEPT !.supabaseOrderId = syncDraftId(ord)] ELSE ord
        db1 == IF q1 THEN syncDraftRows(ord) ELSE db
        idSent == IF ord1.supabaseOrderId # 0 THEN ord1.supabaseOrderId ELSE o
        job == nJobs + 1
        ord2 == [ord1 EXCEPT !.x402JobId = job, !.paymentUrl = idSent,
                             !.x402Negotiation = job, !.state = QR_SENT,
                             !.lastUpdate = now]
        q2 == updateStatusRuns(ord2)
    IN /\ tasks[s].pc = "pc_pay"
       /\ fault \in 0..2
       /\ fault = 1 => q1
       /\ fault = 2 => (rail = "negotiation" /\ q2)
       /\ (q1 /\ fault # 1) => syncDraftFits(ord)
       /\ negotiationAccepted(rail) => nJobs < MaxJobs
       /\ Finish(s)
       /\ IF fault = 1
          THEN UNCHANGED <<orders, db, nJobs>>
          ELSE IF ~negotiationAccepted(rail)
          THEN /\ orders' = [orders EXCEPT ![o] = ord1]
               /\ db' = db1
               /\ UNCHANGED nJobs
          ELSE /\ orders' = [orders EXCEPT ![o] = ord2]
               /\ nJobs' = job
               /\ db' = IF fault = 2 THEN db1 ELSE updateStatusRows(db1, ord2)
       /\ UNCHANGED <<ordersByClient, now, dbEnabled, attention, sent, quota, dropped>>
       /\ last' = IF fault # 1 /\ rail # "negotiation" THEN "pay_failed" ELSE "step"

\* ------------------------------------- handleShoppingIntent, "I paid" branch

\* After generateGeminiResponse: the order is put in VERIFYING.
HSI_Ack(s) ==
    LET o == tasks[s].order
    IN /\ tasks[s].pc = "hsi_ack"
       /\ orders' = [orders EXCEPT ![o].state = VERIFYING, ![o].lastUpdate = now]
       /\ Goto(s, "hsi_verify")
       /\ UNCHANGED <<ordersByClient, now, dbEnabled, db, attention, nJobs, sent, quota, dropped>>
       /\ last' = "step"

\* An "I paid" branch that announces the confirmation whatever the rail said.
verifyActionsConfirmed(to, ok) == <<Act(to, "verifying_ack"), Act(to, "confirmed")>>

\* Actions the "I paid" branch returns.
verifyActions(to, ok) ==
    IF ok THEN <<Act(to, "verifying_ack"), Act(to, "confirmed")>>
          ELSE <<Act(to, "verifying_ack"), Act(to, "wait")>>

\* After verifyFiatPayment: ok is verifyResult.ok && settlement.success.
HSI_Verify(s, ok, fault, sendOk) ==
    LET o == tasks[s].order
        ord == orders[o]
        ord1 == [ord EXCEPT !.state = COMPLETED, !.x402Settlement = Settlement(TRUE, "fiat")]
    IN /\ tasks[s].pc = "hsi_verify"
       /\ fault \in 0..2
       /\ IF ok
          THEN /\ fault = 1 => dbEnabled
               /\ fault = 2 => updateStatusRuns(ord1)
               /\ orders' = [orders EXCEPT ![o] = ord1]
               /\ attention' = IF dbEnabled /\ fault # 1
                               THEN markTwoFactorAttention(attention, ord.companyId, FALSE)
                               ELSE attention
               /\ db' = IF fault = 0 /\ updateStatusRuns(ord1) THEN updateStatusRows(db, ord1) ELSE db
          ELSE /\ fault \in 0..1
               /\ fault = 1 => updateStatusRuns(ord)
               /\ db' = IF fault = 0 /\ updateStatusRuns(ord) THEN updateStatusRows(db, ord) ELSE db
               /\ UNCHANGED <<orders, attention>>
       /\ Finish(s)
       /\ sent' = IF fault # 0 THEN sent
                  ELSE Delivered(o, verifyActions(tasks[s].sender, ok), sendOk)
       /\ UNCHANGED <<ordersByClient, now, dbEnabled, nJobs, quota, dropped>>
       /\ last' = IF ok THEN "step" ELSE "verify_failed"

\* --------------------------------------------------- handleReferredProduct

\* The order once handleReferredProduct has stored the product found.
referredOrder(ord, price) ==
    [ord EXCEPT !.state = CART, !.details = ProductDetails,
                !.amount = IF price > 0 THEN price ELSE ord.amount,
                !.lastUpdate = now]

\* After metaCatalog.getProductInfo: a product that is found resets the
\* order to CART, renames its reference and takes the product's price.
Ref_Lookup(s, found, price) ==
    LET o == tasks[s].order
        ord == orders[o]
    IN /\ tasks[s].pc = "ref_lookup"
       /\ price >= 0
       /\ IF ~found
          THEN /\ Finish(s)
               /\ UNCHANGED orders
          ELSE /\ orders' = [orders EXCEPT ![o] = referredOrder(ord, price)]
               /\ Goto(s, "ref_sync")
       /\ UNCHANGED <<ordersByClient, now, dbEnabled, db, attention, nJobs, sent, quota, dropped>>
       /\ last' = "step"

\* handleReferredProduct's decision once the draft is synced.
refDispatch(ord, pay) ==
    IF pay /\ ord.amount # 0 THEN processCheckoutEntry(ord) ELSE "product_info"

\* ensureOrderUser and syncDraft, then wantsToPayNow decides on checkout.
Ref_Sync(s, pay, fault) ==
    LET o == tasks[s].order
        ord == orders[o]
        q1 == ensureRuns(ord)
        ord1 == [ord EXCEPT !.userId = ord.userId \/ dbEnabled]
        q2 == ~syncDraftSkips(ord1)
        ord2 == IF q2 THEN [ord1 EXCEPT !.supabaseOrderId = syncDraftId(ord1)] ELSE ord1
    IN /\ tasks[s].pc = "ref_sync"
       /\ fault \in 0..2
       /\ fault = 1 => q1
       /\ fault = 2 => q2
       /\ (q2 /\ fault = 0) => syncDraftFits(ord1)
       /\ IF fault = 1
          THEN Finish(s) /\ UNCHANGED <<orders, db>>
          ELSE IF fault = 2
          THEN Finish(s) /\ orders' = [orders EXCEPT ![o] = ord1] /\ UNCHANGED db
          ELSE /\ orders' = [orders EXCEPT ![o] = ord2]
               /\ db' = IF q2 THEN syncDraftRows(ord1) ELSE db
               /\ Continue(s, NextPc(refDispatch(ord, pay)))
       /\ UNCHANGED <<ordersByClient, now, dbEnabled, attention, nJobs, sent, quota, dropped>>
       /\ last' = "step"

\* ---------------------------------------------------- handleTwoFactorReply

\* A pick that takes the first order awaiting a code, whoever owns it.
pendingOrderAny(t) == FindFirst({i \in 1..Len(orders) : orders[i].awaitingTwoFa})

\* The order handleTwoFactorReply picks: first one of the tenant awaiting a code.
pendingOrder(t) ==
    FindFirst({i \in 1..Len(orders) : orders[i].awaitingTwoFa /\ orders[i].companyId = t})

\* A text with a second-factor keyword only, from sender: the router, then
\* handleTwoFactorReply up to submitTwoFactor.
TFA_Start(s, t, sender, hasCode) ==
    LET target == routeTextMessage(resolveRole(t, sender), detectIntent({TWO_FA}))
        routed == target = "handleTwoFactorReply"
        submits == routed /\ hasCode /\ pendingOrder(t) # 0
    IN /\ tasks[s] = Idle
       /\ quota.reply > 0 \/ quota.message > 0
       /\ quota' = IF quota.reply > 0 THEN [quota EXCEPT !.reply = @ - 1]
                                      ELSE [quota EXCEPT !.message = @ - 1]
       /\ tasks' = IF submits
                   THEN [tasks EXCEPT ![s] = Task("tfa_submit", pendingOrder(t), t, sender)]
                   ELSE tasks
       /\ last' = IF ~routed THEN "denied"
                  ELSE IF submits /\ last = "twofa_verifying" THEN last
                  ELSE "step"
       /\ UNCHANGED <<orders, ordersByClient, now, dbEnabled, db, attention, nJobs, sent, dropped>>

\* An accepted code that puts the order back in the cart.
twoFactorRestart(ord) == [ord EXCEPT !.awaitingTwoFa = FALSE, !.state = CART]

\* The pending order once the rail has accepted the code.
twoFactorAccepted(ord) == [ord EXCEPT !.awaitingTwoFa = FALSE, !.state = VERIFYING]

\* A reply that always reports the code as sent.
twoFactorReplySent(delivered) == "code_sent"

\* handleTwoFactorReply's answer to the administrator.
twoFactorReply(delivered) == IF delivered THEN "code_sent" ELSE "retry"

\* After submitTwoFactor: an accepted code resumes the order.
TFA_Submit(s, delivered, fault) ==
    LET o == tasks[s].order
        ord == orders[o]
        ord1 == twoFactorAccepted(ord)
    IN /\ tasks[s].pc = "tfa_submit"
       /\ fault \in 0..2
       /\ IF delivered
          THEN /\ fault = 1 => dbEnabled
               /\ fault = 2 => updateStatusRuns(ord1)
               /\ orders' = [orders EXCEPT ![o] = ord1]
               /\ attention' = IF dbEnabled /\ fault # 1
                               THEN markTwoFactorAttention(attention, ord.companyId, FALSE)
                               ELSE attention
               /\ db' = IF fault = 0 /\ updateStatusRuns(ord1) THEN updateStatusRows(db, ord1) ELSE db
          ELSE /\ fault = 0
               /\ UNCHANGED <<orders, attention, db>>
       /\ Finish(s)
       /\ last' = IF ~delivered THEN "tfa_rejected"
                  ELSE IF last = "twofa_verifying" THEN "round_trip" ELSE "tfa_accepted"
       /\ UNCHANGED <<ordersByClient, now, dbEnabled, nJobs, sent, quota, dropped>>

\* ----------------------------------------------------------- webhook tail

Faults == {"none", "mark", "update", "admins", "find"}

\* HTTP status the controller answers with: @HttpCode(ACCEPTED) when the
\* handler and every send returned, the framework's 500 when one threw.
ACCEPTED == 202
Ack(threw, acts, sendOk) == IF threw \/ (acts # <<>> /\ ~sendOk) THEN 500 ELSE ACCEPTED

\* The durable query named by fault is one the handler issues.  mark is
\* "none" when the branch does not call markTwoFactorAttention, upd tells
\* whether it calls updateStatus, admins whether it calls getAdminPhones.
settleFaultOk(ord1, mark, upd, admins, fault) ==
    /\ fault \in {"none", "mark", "update", "admins"}
    /\ fault = "mark" => (mark # "none" /\ dbEnabled)
    /\ fault = "update" => (upd /\ updateStatusRuns(ord1))
    /\ fault = "admins" => (admins /\ dbEnabled)

\* Outcome of a confirmation handler once the order o has been rewritten to
\* ord1 in memory: markTwoFactorAttention, updateStatus, getAdminPhones,
\* then the controller dispatches the returned actions.
settleOut(o, ord1, mark, upd, admins, acts, fault, sendOk) ==
    LET qMark == mark # "none" /\ dbEnabled
        qUpd == upd /\ updateStatusRuns(ord1)
        threw == fault # "none"
        out == IF threw THEN <<>> ELSE acts
    IN [order |-> o,
        orders |-> [orders EXCEPT ![o] = ord1],
        attention |-> IF qMark /\ fault # "mark"
                      THEN markTwoFactorAttention(attention, ord1.companyId, mark = "set")
                      ELSE attention,
        db |-> IF qUpd /\ fault \notin {"mark", "update"} THEN updateStatusRows(db, ord1) ELSE db,
        sent |-> Delivered(o, out, sendOk),
        actions |-> out,
        http |-> Ack(threw, out, sendOk)]

\* Outcome of a handler that makes no write and returns no action.
idleOut(o, threw) ==
    [order |-> o, orders |-> orders, attention |-> attention, db |-> db, sent |-> sent,
     actions |-> <<>>, http |-> Ack(threw, <<>>, TRUE)]

\* The step that takes a handler's outcome.
Apply(out, tag) ==
    /\ quota.webhook > 0
    /\ quota' = [quota EXCEPT !.webhook = @ - 1]
    /\ orders' = out.orders
    /\ attention' = out.attention
    /\ db' = out.db
    /\ sent' = out.sent
    /\ dropped' = (dropped \/ out.order = 0)
    /\ last' = tag
    /\ UNCHANGED <<ordersByClient, tasks, now, dbEnabled, nJobs>>

\* --------------------------------------------------- handlePaymentWebhook

\* A lookup that forgets the orders nobody touched since the clock moved.
legacyResolveFresh(id) == IF getById(id) # 0 /\ orders[id].lastUpdate = now THEN id ELSE 0

\* Order the legacy webhook resolves to: ordersById.get(payload.order_id)
legacyResolve(id) == getById(id)

\* In-memory order after handlePaymentWebhook's switch.
legacyOrder(ord, ev, success) ==
    LET ord0 == [ord EXCEPT !.lastUpdate = now]
    IN CASE ev = "QR_GENERATED" -> [ord0 EXCEPT !.state = QR_SENT]
         [] ev = "VERIFICATION_RESULT" ->
                [ord0 EXCEPT !.state = IF success THEN COMPLETED ELSE CART]
         [] ev = "LOGIN_2FA_REQUIRED" ->
                [ord0 EXCEPT !.awaitingTwoFa = TRUE, !.state = VERIFYING]
         [] OTHER -> ord0

\* Actions handlePaymentWebhook returns.
legacyActions(ord, ev, success) ==
    LET to == ord.clientPhone
        adm == getAdminPhones(ord.companyId)
    IN CASE ev = "QR_GENERATED" -> <<Act(to, "qr_ready"), Act(to, "qr_image")>>
         [] ev = "VERIFICATION_RESULT" ->
                IF success THEN <<Act(to, "confirmed")>> ELSE <<Act(to, "failed")>>
         [] ev = "LOGIN_2FA_REQUIRED" ->
                <<Act(to, "twofa_wait")>> \o [i \in 1..Len(adm) |-> Act(adm[i], "twofa_alert")]
         [] OTHER -> <<>>

\* markTwoFactorAttention call of the branch
legacyMark(ev, success) ==
    CASE ev = "VERIFICATION_RESULT" /\ success -> "clear"
      [] ev = "LOGIN_2FA_REQUIRED" -> "set"
      [] OTHER -> "none"

legacyFaultOk(id, ev, success, fault) ==
    IF legacyResolve(id) = 0 THEN fault = "none"
    ELSE settleFaultOk(legacyOrder(orders[legacyResolve(id)], ev, success),
                       legacyMark(ev, success), ev # "OTHER", ev = "LOGIN_2FA_REQUIRED", fault)

\* handlePaymentEvent + handlePaymentWebhook: what the endpoint does.
legacyOut(id, ev, success, fault, sendOk) ==
    LET o == legacyResolve(id)
    IN IF o = 0 THEN idleOut(0, FALSE)
       ELSE settleOut(o, legacyOrder(orders[o], ev, success), legacyMark(ev, success),
                      ev # "OTHER", ev = "LOGIN_2FA_REQUIRED",
                      legacyActions(orders[o], ev, success), fault, sendOk)

\* Tag of the trigger.
legacyTag(id, ev, fault) ==
    LET o == legacyResolve(id)
    IN IF o = 0 THEN "miss"
       ELSE IF ev = "LOGIN_2FA_REQUIRED" /\ fault = "none"
       THEN (IF orders[o].state = VERIFYING THEN "twofa_verifying" ELSE "twofa")
       ELSE "legacy"

\* The handler applied to one payload.
LegacyWebhook(id, ev, success, fault, sendOk) ==
    /\ legacyFaultOk(id, ev, success, fault)
    /\ Apply(legacyOut(id, ev, success, fault, sendOk), legacyTag(id, ev, fault))

\* ------------------------------------------------------ handleX402Webhook

\* A resolution that knows the primary key only.
x402ResolveById(job, id) == IF id # 0 THEN getById(id) ELSE 0

\* Order the unified-rail webhook resolves to: by job id in memory, then by
\* payload.orderId; id = 0 is a payload without orderId.
x402Resolve(job, id) ==
    LET byJob == FindFirst({i \in 1..Len(orders) : orders[i].x402JobId = job})
    IN IF byJob = 0 /\ id # 0 THEN getById(id) ELSE byJob

IsConfirmed(ev) == ev \in {"X402_PAYMENT_CONFIRMED", "FIAT_PAYMENT_CONFIRMED"}
IsFailed(ev) == ev \in {"X402_PAYMENT_FAILED", "FIAT_PAYMENT_FAILED"}
IsExpired(ev) == ev = "X402_PAYMENT_EXPIRED"

\* In-memory order after handleX402Webhook's switch.
x402Order(ord, ev, ty) ==
    LET ord0 == [ord EXCEPT !.lastUpdate = now]
    IN CASE IsConfirmed(ev) ->
                [ord0 EXCEPT !.state = COMPLETED, !.x402Settlement = Settlement(TRUE, ty)]
         [] IsFailed(ev) ->
                [ord0 EXCEPT !.state = CART, !.x402Settlement = Settlement(FALSE, ty)]
         [] IsExpired(ev) ->
                [ord0 EXCEPT !.state = CART, !.x402JobId = 0, !.x402Negotiation = 0]
         [] OTHER -> ord0

\* Actions handleX402Webhook returns.
x402Actions(ord, ev) ==
    CASE IsConfirmed(ev) -> <<Act(ord.clientPhone, "confirmed")>>
      [] IsFailed(ev) -> <<Act(ord.clientPhone, "failed")>>
      [] IsExpired(ev) -> <<Act(ord.clientPhone, "expired")>>
      [] OTHER -> <<>>

x402Mark(ev) == IF IsConfirmed(ev) THEN "clear" ELSE "none"
x402Updates(ev) == IsConfirmed(ev) \/ IsFailed(ev) \/ IsExpired(ev)

x402FaultOk(job, id, ev, ty, fault) ==
    IF x402Resolve(job, id) = 0
    THEN fault \in {"none", "find"} /\ (fault = "find" => dbEnabled)
    ELSE settleFaultOk(x402Order(orders[x402Resolve(job, id)], ev, ty),
                       x402Mark(ev), x402Updates(ev), FALSE, fault)

\* handleX402Event + handleX402Webhook: what the endpoint does.  An order
\* that is not in memory is looked up in the store (findByX402JobId), which
\* only changes the log line.
x402Out(job, id, ev, ty, fault, sendOk) ==
    LET o == x402Resolve(job, id)
    IN IF o = 0 THEN idleOut(0, fault = "find")
       ELSE settleOut(o, x402Order(orders[o], ev, ty), x402Mark(ev), x402Updates(ev), FALSE,
                      x402Actions(orders[o], ev), fault, sendOk)

\* Tag of the trigger.
x402Tag(job, id, ev, fault) ==
    IF x402Resolve(job, id) = 0 THEN "miss"
    ELSE IF id = 0 /\ IsConfirmed(ev) /\ fault = "none" THEN "x402_job"
    ELSE "x402"

\* The handler applied to one payload.
X402Webhook(job, id, ev, ty, fault, sendOk) ==
    /\ x402FaultOk(job, id, ev, ty, fault)
    /\ Apply(x402Out(job, id, ev, ty, fault, sendOk), x402Tag(job, id, ev, fault))

\* -------------------------------------------------- confirmOrderFromProxy

\* Order the page confirmation resolves to: by id, then by reference.
proxyResolve(id, details) ==
    LET byId == getById(id)
    IN IF byId = 0 /\ details # NoDetails
       THEN FindFirst({i \in 1..Len(orders) : orders[i].details = details})
       ELSE byId

\* In-memory order after confirmOrderFromProxy.
proxyOrder(ord) ==
    [ord EXCEPT !.lastUpdate = now, !.state = COMPLETED,
                !.x402Settlement = Settlement(TRUE, "fiat")]

\* A page confirmation that is applied whatever the state of the order.
proxyNeverSkips(ord) == FALSE

\* confirmOrderFromProxy returns early for an order already confirmed.
proxySkips(ord) == ord.state = COMPLETED

proxyFaultOk(id, details, fault) ==
    LET o == proxyResolve(id, details)
    IN IF o = 0 \/ proxySkips(orders[o]) THEN fault = "none"
       ELSE settleFaultOk(proxyOrder(orders[o]), "clear", TRUE, FALSE, fault)

\* handleSuccessfulPayment + confirmOrderFromProxy
proxyOut(id, details, fault, sendOk) ==
    LET o == proxyResolve(id, details)
    IN IF o = 0 THEN idleOut(0, FALSE)
       ELSE IF proxySkips(orders[o]) THEN idleOut(o, FALSE)
       ELSE settleOut(o, proxyOrder(orders[o]), "clear", TRUE, FALSE,
                      <<Act(orders[o].clientPhone, "confirmed")>>, fault, sendOk)

\* Tag of the trigger.
proxyTag(id, details) ==
    LET o == proxyResolve(id, details)
    IN IF o = 0 THEN "miss" ELSE IF proxySkips(orders[o]) THEN "proxy_skip" ELSE "proxy"

\* What the payment backend answers to the forwarded GET, and what the
\* X-PAYMENT header of the request is: absent, not base64 JSON, JSON
\* without orderId, or JSON with orderId.
BackendAnswers == {"200", "402", "error"}
XPaymentHeaders == {"none", "garbled", "no_order", "order"}

\* A proxy that confirms whatever the backend answered.
forwardsWithHeader(answer, header) == header = "order"

\* forwardPayRequest hands the payload to confirmOrderFromProxy.
forwardsToConfirm(answer, header) == answer = "200" /\ header = "order"

\* Tag of a page request: "proxy_refused" unless the backend answered 200
\* to a request whose header names an order.
pageTag(answer, header, id, details) ==
    IF answer = "200" /\ header = "order" THEN proxyTag(id, details) ELSE "proxy_refused"

\* The handler applied to one confirmed page payment.
ProxyConfirm(answer, header, id, details, fault, sendOk) ==
    /\ proxyFaultOk(id, details, fault)
    /\ Apply(proxyOut(id, details, fault, sendOk), pageTag(answer, header, id, details))

\* A page request that reaches no order: the backend's answer is relayed.
ProxyRefuse ==
    /\ quota.webhook > 0
    /\ quota' = [quota EXCEPT !.webhook = @ - 1]
    /\ last' = "proxy_refused"
    /\ UNCHANGED <<orders, ordersByClient, tasks, now, dbEnabled, db, attention, nJobs, sent,
                   dropped>>

\* ------------------------------------------------------------------- Next

\* Identifiers an inbound payload can carry.
IdInputs == (1..Len(orders)) \cup {UnknownId} \cup {RowBase + r : r \in 1..Len(db)}
JobInputs == (1..nJobs) \cup {UnknownJob}
UnknownDetails == RefDetails("other", 0)
DetailInputs == {NoDetails, UnknownDetails} \cup {orders[i].details : i \in 1..Len(orders)}

\* Payload fields a handler reads, per event.
LegacySuccess(ev) == IF ev = "VERIFICATION_RESULT" THEN BOOLEAN ELSE {FALSE}
X402Types(ev) == IF IsConfirmed(ev) \/ IsFailed(ev) THEN Methods ELSE {"fiat"}
\* Delivery can only fail when there is something to deliver.
SendResults(acts) == IF acts = <<>> THEN {TRUE} ELSE BOOLEAN

\* POST webhook/payments/result
PaymentEvent ==
    /\ quota.webhook > 0
    /\ \E id \in IdInputs, ev \in LegacyEvents :
          \E ok \in LegacySuccess(ev) :
             \E f \in {g \in Faults : legacyFaultOk(id, ev, ok, g)} :
                \E so \in SendResults(legacyOut(id, ev, ok, f, TRUE).actions) :
                   LegacyWebhook(id, ev, ok, f, so)

\* POST webhook/x402/result
X402Event ==
    /\ quota.webhook > 0
    /\ \E j \in JobInputs, id \in IdInputs \cup {0}, ev \in X402Events :
          \E ty \in X402Types(ev) :
             \E f \in {g \in Faults : x402FaultOk(j, id, ev, ty, g)} :
                \E so \in SendResults(x402Out(j, id, ev, ty, f, TRUE).actions) :
                   X402Webhook(j, id, ev, ty, f, so)

\* GET pay through the proxy: forwardPayRequest relays the request and, on
\* a 200 to a request whose header names an order, confirms that order.
ProxyEvent ==
    /\ quota.webhook > 0
    /\ \E answer \in BackendAnswers, header \in XPaymentHeaders :
          IF forwardsToConfirm(answer, header)
          THEN \E id \in IdInputs, d \in DetailInputs :
                  \E f \in {g \in Faults : proxyFaultOk(id, d, g)} :
                     \E so \in SendResults(proxyOut(id, d, f, TRUE).actions) :
                        ProxyConfirm(answer, header, id, d, f, so)
          ELSE ProxyRefuse

Next ==
    \/ Tick
    \/ \E s \in Slots, t \in Tenants, b \in Buyers, r \in BOOLEAN : HSI_Start(s, t, b, r)
    \/ \E s \in Slots, tool \in BOOLEAN, a \in Amounts : HSI_Extract(s, tool, a)
    \/ \E s \in Slots, f \in 0..2 : HSI_Sync(s, f)
    \/ \E s \in Slots, i \in Intents, f \in 0..1 : HSI_Intent(s, i, f)
    \/ \E s \in Slots, rail \in {"error", "settled", "negotiation"}, f \in 0..2 : PC_Pay(s, rail, f)
    \/ \E s \in Slots : HSI_Ack(s)
    \/ \E s \in Slots, ok \in BOOLEAN, f \in 0..2, so \in BOOLEAN : HSI_Verify(s, ok, f, so)
    \/ \E s \in Slots, found \in BOOLEAN, p \in Amounts : Ref_Lookup(s, found, p)
    \/ \E s \in Slots, pay \in BOOLEAN, f \in 0..2 : Ref_Sync(s, pay, f)
    \/ \E s \in Slots, t \in Tenants, c \in BOOLEAN :
          \E p \in {getAdminPhones(t)[1]} \cup Buyers : TFA_Start(s, t, p, c)
    \/ \E s \in Slots, d \in BOOLEAN, f \in 0..2 : TFA_Submit(s, d, f)
    \/ PaymentEvent
    \/ X402Event
    \/ ProxyEvent

Spec == Init /\ [][Next]_vars

\* Two messages handled at once: the event loop interleaves the segments of
\* two handlers.
InitConcurrent == InitOn(FALSE, MaxPairMessages, MaxPairWebhooks, 0, {1, 2}, {"T1"}, 0)
SpecConcurrent == InitConcurrent /\ [][Next]_vars

\* Two companies share the process; tenants come from the store.  The
\* runs that take every trigger start late on the clock, the run that
\* watches the clock pass takes one message.
InitTenants ==
    \/ InitOn(TRUE, MaxTenantMessages, MaxTenantWebhooks, MaxTenantReplies, {1}, {"T1", "T2"},
              MaxClock)
    \/ InitOn(TRUE, MaxTenantReplies, 0, 0, {1}, {"T1", "T2"}, 0)
SpecTenants == InitTenants /\ [][Next]_vars

\* ------------------------------------------------------------------ types
TypeOK ==
    /\ Len(orders) <= MaxOrders
    /\ \A i \in 1..Len(orders) :
          /\ orders[i].state \in PaymentState
          /\ orders[i].lastUpdate \in 0..MaxClock
          /\ orders[i].x402JobId \in 0..MaxJobs
    /\ now \in 0..MaxClock
    /\ Len(db) <= MaxRows
    /\ nJobs \in 0..MaxJobs
    /\ quota.message \in 0..MaxLongMessages /\ quota.webhook \in 0..MaxWebhooks
    /\ dropped \in BOOLEAN

\* ----------------------------------------------------------------- claims

Ledger == 1..Len(orders)

\* A handler outcome that leaves order o as it was and notifies nobody.
Absorbed(o, out) ==
    /\ out.orders[o].state = orders[o].state
    /\ out.orders[o].lastUpdate = orders[o].lastUpdate
    /\ out.orders[o].x402Settlement.type = orders[o].x402Settlement.type
    /\ out.actions = <<>>

\* C1 (completion absorbency): for an order that is COMPLETED, every legacy
\* webhook (QR_GENERATED, VERIFICATION_RESULT, LOGIN_2FA_REQUIRED), every
\* unified-rail webhook and the page confirmation resolved to it leave its
\* state, lastUpdate and settlement method unchanged and return no
\* notification.
C1_CompletionAbsorbency ==
    \A o \in Ledger : orders[o].state = COMPLETED =>
        /\ \A ev \in LegacyEvents \ {"OTHER"}, ok \in BOOLEAN :
              Absorbed(o, legacyOut(o, ev, ok, "none", TRUE))
        /\ \A j \in JobInputs, ev \in X402Events, ty \in Methods :
              x402Resolve(j, o) = o => Absorbed(o, x402Out(j, o, ev, ty, "none", TRUE))
        /\ Absorbed(o, proxyOut(o, NoDetails, "none", TRUE))

\* An order after a handler ran whose state, settlement method and amount are
\* those of order o now.
Locked(o, ord1) ==
    /\ ord1.state = orders[o].state
    /\ ord1.x402Settlement.type = orders[o].x402Settlement.type
    /\ ord1.amount = orders[o].amount

\* C2 (method lock): once an order has a settlement record, a unified-rail
\* webhook or a page confirmation that reports the other settlement type
\* changes neither its state, nor its settlement method, nor its amount.
C2_MethodLock ==
    \A o \in Ledger : orders[o].x402Settlement.set =>
        /\ \A j \in JobInputs, ev \in X402Events, ty \in Methods :
              (ty # orders[o].x402Settlement.type /\ x402Resolve(j, o) = o)
                 => Locked(o, x402Out(j, o, ev, ty, "none", TRUE).orders[o])
        /\ orders[o].x402Settlement.type # "fiat"
              => Locked(o, proxyOut(o, NoDetails, "none", TRUE).orders[o])

\* C3 (confirmation idempotence): whatever payment-confirmed signals arrive
\* for an order, in any order and any number of times, the buyer has been
\* sent at most one payment-confirmed notification for it.
C3_SingleConfirmation == \A o \in OrderIds : sent[o] <= 1

\* C4 (single active order per buyer): at most one order of a (tenant, buyer)
\* pair is in a state other than COMPLETED.
C4_SingleActiveOrder ==
    \A t \in Tenants, b \in Buyers :
        Cardinality({o \in Ledger : /\ orders[o].companyId = t
                                    /\ orders[o].clientPhone = b
                                    /\ orders[o].state # COMPLETED}) <= 1

\* C5 (no leaving CART without an amount): every order whose state is not
\* CART has a positive amount.
C5_AmountOutsideCart == \A o \in Ledger : orders[o].state # CART => orders[o].amount > 0

\* C6 (amount guard on checkout): when handleShoppingIntent is about to
\* dispatch a checkout intent on an order in CART whose amount is absent or
\* not positive, whatever its remaining calls do, its result is the "need
\* amount" prompt (not an exception) and it does not go on to the
\* negotiation.
C6_AmountGuard ==
    \A s \in Slots :
        LET ord == orders[tasks[s].order]
        IN (tasks[s].pc = "hsi_intent" /\ ord.state = CART /\ ~(ord.amount > 0)) =>
              \A f \in 0..1 : (f = 1 => ensureRuns(ord)) =>
                  /\ hsiIntentReply(ord, "checkout", f) = "need_amount"
                  /\ NextPc(hsiIntentReply(ord, "checkout", f)) = "idle"

\* The edges of the order state machine.
Edges ==
    {<<CART, AWAITING_QR>>, <<AWAITING_QR, QR_SENT>>, <<QR_SENT, VERIFYING>>,
     <<VERIFYING, COMPLETED>>, <<VERIFYING, CART>>}

\* C7 (defined edges only): every step that changes the state of an order
\* changes it along CART->AWAITING_QR, AWAITING_QR->QR_SENT,
\* QR_SENT->VERIFYING, VERIFYING->COMPLETED or VERIFYING->CART.
C7_DefinedEdges ==
    [][\A o \in Ledger :
          orders'[o].state # orders[o].state => <<orders[o].state, orders'[o].state>> \in Edges]_vars

\* What a message handler read from its order before the await it is
\* suspended on, and computes its next write from.
ReadBefore(pc, ord) ==
    CASE pc = "pc_pay" -> ord.state = CART
      [] pc = "hsi_ack" -> ord.state = QR_SENT
      [] pc = "hsi_verify" -> ord.state = VERIFYING
      [] pc = "tfa_submit" -> ord.awaitingTwoFa
      [] OTHER -> TRUE

\* C8 (per-order serialization): a handler resuming after an await writes
\* the state, settlement record or awaitingTwoFa of its order only if the
\* order still is as the handler read it before the await, i.e. no other
\* trigger has written the order in between.
C8_NoStaleWrite ==
    [][\A s \in Slots :
          LET o == tasks[s].order
          IN (/\ tasks'[s] # tasks[s]
              /\ tasks[s].pc # "idle"
              /\ \/ orders'[o].state # orders[o].state
                 \/ orders'[o].x402Settlement # orders[o].x402Settlement
                 \/ orders'[o].awaitingTwoFa # orders[o].awaitingTwoFa)
             => ReadBefore(tasks[s].pc, orders[o])]_vars

\* No order of the ledger is stored under the id, carries the job id, or has
\* the reference.
NoOrderHasId(id) == \A i \in Ledger : i # id
NoOrderHasJob(job) == \A i \in Ledger : orders[i].x402JobId # job
NoOrderHasDetails(d) == \A i \in Ledger : orders[i].details # d

\* A handler outcome with no action and the ledger as it was.
Untouched(out) == out.actions = <<>> /\ out.orders = orders

\* C9 (unresolvable event): an event that matches no order in memory (legacy:
\* order_id; unified rail: jobId, then orderId; page: orderId, then
\* reference) makes its handler return no action and change no field of
\* any order.
C9_Unresolvable ==
    /\ \A id \in IdInputs : NoOrderHasId(id) =>
          \A ev \in LegacyEvents, ok \in BOOLEAN :
             Untouched(legacyOut(id, ev, ok, "none", TRUE))
    /\ \A j \in JobInputs : NoOrderHasJob(j) =>
          \A id \in IdInputs \cup {0} : NoOrderHasId(id) =>
             \A ev \in X402Events, ty \in Methods, f \in {"none", "find"} :
                Untouched(x402Out(j, id, ev, ty, f, TRUE))
    /\ \A id \in IdInputs : NoOrderHasId(id) =>
          \A d \in DetailInputs : NoOrderHasDetails(d) =>
             Untouched(proxyOut(id, d, "none", TRUE))

\* An unresolvable event has been handled while the ledger held an order
\* with a rail job and a durable row, and that order was sent nothing.
C9_Witness ==
    /\ dropped
    /\ \E o \in Ledger : orders[o].x402JobId # 0 /\ orders[o].supabaseOrderId # 0 /\ sent[o] = 0
    /\ quota.webhook = 0

\* C10 (acknowledgment): every well-formed webhook on the legacy and the
\* unified-rail endpoint is answered with success, whether it resolved to an
\* order or not, and whether or not a delivery or a durable write failed.
C10_Acknowledged ==
    /\ \A id \in IdInputs, ev \in LegacyEvents, ok \in BOOLEAN, f \in Faults, so \in BOOLEAN :
          legacyFaultOk(id, ev, ok, f) => legacyOut(id, ev, ok, f, so).http = ACCEPTED
    /\ \A j \in JobInputs, id \in IdInputs \cup {0}, ev \in X402Events, ty \in Methods,
          f \in Faults, so \in BOOLEAN :
          x402FaultOk(j, id, ev, ty, f) => x402Out(j, id, ev, ty, f, so).http = ACCEPTED

ConfirmedEvents == {"X402_PAYMENT_CONFIRMED", "FIAT_PAYMENT_CONFIRMED"}

\* C11 (reconciliation by secondary key): a unified-rail webhook that
\* carries the job id of an order in memory and no orderId resolves to that
\* order, and when its event is CONFIRMED the handler moves that order to
\* COMPLETED and leaves every other order as it was.
C11_SecondaryKey ==
    \A o \in Ledger : orders[o].x402JobId # 0 =>
        /\ x402Resolve(orders[o].x402JobId, 0) = o
        /\ \A ev \in ConfirmedEvents, ty \in Methods :
              LET out == x402Out(orders[o].x402JobId, 0, ev, ty, "none", TRUE)
              IN /\ out.orders[o].state = COMPLETED
                 /\ \A i \in Ledger \ {o} : out.orders[i] = orders[i]

\* A CONFIRMED event without orderId has just completed the order carrying
\* its job id, which was notified once.
C11_Witness ==
    /\ last = "x402_job"
    /\ \E o \in Ledger : /\ orders[o].state = COMPLETED
                         /\ orders[o].x402JobId # 0
                         /\ orders[o].x402Settlement = Settlement(TRUE, "crypto")
                         /\ orders[o].lastUpdate = now
                         /\ sent[o] = 1

\* C12 (dedup across channels): for an order a unified-rail CONFIRMED event
\* has completed, a page confirmation for it returns no action and leaves
\* its state, lastUpdate and settlement record as they are.
C12_CrossChannelDedup ==
    \A o \in Ledger :
        (orders[o].state = COMPLETED /\ orders[o].x402Settlement.set /\ orders[o].x402Settlement.success)
        => \A d \in DetailInputs :
              LET out == proxyOut(o, d, "none", TRUE)
              IN /\ out.actions = <<>>
                 /\ out.orders[o].state = orders[o].state
                 /\ out.orders[o].lastUpdate = orders[o].lastUpdate
                 /\ out.orders[o].x402Settlement = orders[o].x402Settlement

\* A page confirmation has just found its order COMPLETED by a crypto
\* settlement of the unified rail, and the buyer has one notification.
C12_Witness ==
    /\ last = "proxy_skip"
    /\ \E o \in Ledger : /\ orders[o].state = COMPLETED
                         /\ orders[o].x402Settlement = Settlement(TRUE, "crypto")
                         /\ sent[o] = 1

\* C13 (second-factor round trip): the step that handles LOGIN_2FA_REQUIRED
\* for an order in VERIFYING sets its awaitingTwoFa and leaves it in
\* VERIFYING, touching no other order; the step in which the rail accepts the
\* code an administrator submitted clears awaitingTwoFa of the pending order
\* and leaves it in VERIFYING.
C13_SecondFactorRoundTrip ==
    [][/\ (quota'.webhook # quota.webhook /\ last' = "twofa_verifying") =>
              \E o \in Ledger : /\ orders[o].state = VERIFYING
                                /\ orders'[o].awaitingTwoFa
                                /\ orders'[o].state = VERIFYING
                                /\ \A i \in Ledger \ {o} : orders'[i] = orders[i]
       /\ \A s \in Slots :
              (/\ tasks[s].pc = "tfa_submit"
               /\ tasks'[s] = Idle
               /\ last' \in {"tfa_accepted", "round_trip"})
              => /\ ~orders'[tasks[s].order].awaitingTwoFa
                 /\ orders'[tasks[s].order].state = VERIFYING]_vars

\* The rail has just accepted the code an administrator sent in answer to a
\* second-factor request made while the order was in VERIFYING.
C13_Witness ==
    /\ last = "round_trip"
    /\ \E o \in Ledger : /\ orders[o].state = VERIFYING
                         /\ ~orders[o].awaitingTwoFa
                         /\ orders[o].x402JobId # 0

\* The administrators of a tenant: the company's list and the company users
\* with the administrator role; the administrator of last resort when the
\* directory is off.
Administrators(t) ==
    IF dbEnabled THEN Range(CompanyAdminIds(t)) \cup Range(CompanyUserAdmins(t))
    ELSE {adminPhone}

\* Number of actions of acts of the kind, sent to the phone.
Count(acts, kind, to) ==
    Cardinality({i \in 1..Len(acts) : acts[i].kind = kind /\ acts[i].to = to})

\* C14 (second-factor fan-out): the actions returned for LOGIN_2FA_REQUIRED on
\* an order of tenant T are one alert for each administrator of T, none for
\* anybody else, and one message to the buyer.
C14_FanOut ==
    \A o \in Ledger :
        LET acts == legacyOut(o, "LOGIN_2FA_REQUIRED", FALSE, "none", TRUE).actions
            t == orders[o].companyId
        IN /\ \A p \in Phones :
                 Count(acts, "twofa_alert", p) = IF p \in Administrators(t) THEN 1 ELSE 0
           /\ Count(acts, "twofa_wait", orders[o].clientPhone) = 1
           /\ Len(acts) = Cardinality(Administrators(t)) + 1

\* LOGIN_2FA_REQUIRED has just been handled with the directory on: the order
\* awaits a code and the tenant is flagged.
C14_Witness ==
    /\ last \in {"twofa", "twofa_verifying"}
    /\ dbEnabled
    /\ \E o \in Ledger : orders[o].awaitingTwoFa /\ attention[orders[o].companyId]

\* C15 (negotiation retry is a no-op): a checkout request for an order in
\* QR_SENT or VERIFYING, typed or made from a catalog product, does not go on
\* to a negotiation and leaves the order's state, rail job id and negotiation
\* as they are.
C15_RetryNoOp ==
    \A s \in Slots :
        /\ (tasks[s].pc = "hsi_intent" /\ orders[tasks[s].order].state \in {QR_SENT, VERIFYING})
           => NextPc(hsiDispatch(orders[tasks[s].order], "checkout")) # "pc_pay"
        /\ (tasks[s].pc = "ref_lookup" /\ orders[tasks[s].order].state \in {QR_SENT, VERIFYING})
           => \A price \in {a \in Amounts : a >= 0} :
                 LET ord == orders[tasks[s].order]
                     ord1 == referredOrder(ord, price)
                 IN /\ ord1.state = ord.state
                    /\ ord1.x402JobId = ord.x402JobId
                    /\ ord1.x402Negotiation = ord.x402Negotiation
                    /\ NextPc(refDispatch(ord1, TRUE)) # "pc_pay"

\* C16 (out-of-order safety): VERIFICATION_RESULT(success) changes the state
\* of an order only when the order is in VERIFYING, and QR_GENERATED only
\* when it is in AWAITING_QR.
C16_OutOfOrderSafety ==
    \A o \in Ledger :
        /\ orders[o].state # VERIFYING
           => legacyOut(o, "VERIFICATION_RESULT", TRUE, "none", TRUE).orders[o].state
                 = orders[o].state
        /\ orders[o].state # AWAITING_QR
           => legacyOut(o, "QR_GENERATED", FALSE, "none", TRUE).orders[o].state
                 = orders[o].state

\* Two handler outcomes with the same ledger, the same actions and the same
\* answer to the sender.
SameOutcome(a, b) == a.orders = b.orders /\ a.actions = b.actions /\ a.http = b.http

\* C17 (durable-store failure is not user-visible): whichever durable query
\* of a handler fails, the in-memory transition, the notifications and the
\* answer to the sender are those of the run in which no query fails; a buyer
\* message gets the reply it gets when the store answers.
C17_DurableFailureMasked ==
    /\ \A id \in IdInputs, ev \in LegacyEvents, ok \in BOOLEAN, f \in Faults :
          legacyFaultOk(id, ev, ok, f)
          => SameOutcome(legacyOut(id, ev, ok, f, TRUE), legacyOut(id, ev, ok, "none", TRUE))
    /\ \A j \in JobInputs, id \in IdInputs \cup {0}, ev \in X402Events, ty \in Methods,
          f \in Faults :
          x402FaultOk(j, id, ev, ty, f)
          => SameOutcome(x402Out(j, id, ev, ty, f, TRUE), x402Out(j, id, ev, ty, "none", TRUE))
    /\ \A id \in IdInputs, d \in DetailInputs, f \in Faults :
          proxyFaultOk(id, d, f)
          => SameOutcome(proxyOut(id, d, f, TRUE), proxyOut(id, d, "none", TRUE))
    /\ \A s \in Slots :
          (tasks[s].pc = "hsi_intent" /\ ensureRuns(orders[tasks[s].order]))
          => \A i \in Intents :
                hsiIntentReply(orders[tasks[s].order], i, 1)
                   = hsiIntentReply(orders[tasks[s].order], i, 0)

\* C18 (durable metadata is merged): a metadata field a durable row has is
\* still there after every later write to the row.
C18_MetadataMerged ==
    [][\A r \in 1..Len(db), f \in DOMAIN NoMeta :
          db[r].meta[f] # NoMeta[f] => db'[r].meta[f] # NoMeta[f]]_vars

\* Texts by the keyword families they contain.
Texts == SUBSET {BOOKING, SHOPPING, REPORTING, TWO_FA}

\* C19 (second-factor replies are administrator-only): when a text comes in,
\* the router hands no text of a sender whose role is not ADMIN, whatever its
\* keywords, to handleTwoFactorReply; a
\* handler waiting on submitTwoFactor was started by an administrator; and
\* the step in which the router refuses a text changes no order and starts
\* no handler.
C19_AdminOnly ==
    [][/\ quota'.message # quota.message =>
              \A t \in Tenants, p \in Phones, w \in Texts :
                 resolveRole(t, p) # ADMIN
                 => routeTextMessage(resolveRole(t, p), detectIntent(w)) # "handleTwoFactorReply"
       /\ \A s \in Slots :
              (tasks[s].pc # "tfa_submit" /\ tasks'[s].pc = "tfa_submit")
              => resolveRole(tasks'[s].tenant, tasks'[s].sender) = ADMIN
       /\ (quota'.message # quota.message /\ last' = "denied")
              => orders' = orders /\ tasks' = tasks]_vars

\* The router has just refused a second-factor text while an order of the
\* tenant was awaiting a code, and the order still awaits it.
C19_Witness ==
    /\ last = "denied"
    /\ \E o \in Ledger : orders[o].awaitingTwoFa /\ orders[o].state = VERIFYING
    /\ \A s \in Slots : tasks[s] = Idle

\* C20 (order creation and supersession): the step in which
\* handleShoppingIntent starts creates an order exactly when the by-buyer
\* index has none for the pair or the indexed one is COMPLETED; the new order
\* has an id no order had, state CART and no amount, takes the index entry,
\* and every earlier order is still under its id with its fields unchanged;
\* otherwise the handler works on the indexed order and creates nothing.
C20_Creation ==
    [][\A s \in Slots :
          (tasks[s] = Idle /\ tasks'[s].pc \in {"hsi_extract", "ref_lookup"}) =>
              LET k == buildClientKey(tasks'[s].tenant, tasks'[s].sender)
                  cur == ordersByClient[k]
                  o == tasks'[s].order
                  created == Len(orders') # Len(orders)
              IN /\ created <=> (cur = 0 \/ orders[cur].state = COMPLETED)
                 /\ created =>
                       /\ o \notin Ledger
                       /\ Len(orders') = Len(orders) + 1
                       /\ orders'[o].state = CART
                       /\ orders'[o].amount = 0
                       /\ ordersByClient'[k] = o
                       /\ \A i \in Ledger : orders'[i] = orders[i]
                 /\ ~created =>
                       /\ o = cur
                       /\ orders' = orders
                       /\ ordersByClient' = ordersByClient]_vars

\* A second order has just been opened for a buyer whose first order is
\* COMPLETED: the index points at the new one, the old one is still there.
C20_Witness ==
    /\ Len(orders) = 2
    /\ orders[1].state = COMPLETED
    /\ sent[1] = 1
    /\ orders[2].state = CART /\ orders[2].amount = 0
    /\ \E t \in Tenants, b \in Buyers :
          /\ ordersByClient[buildClientKey(t, b)] = 2
          /\ orders[1].clientPhone = b /\ orders[2].clientPhone = b
    /\ \E s \in Slots : tasks[s].order = 2 /\ tasks[s].pc = "hsi_extract"

\* A handler of handleShoppingIntent or handleReferredProduct in flight.
Shopping(task) == task.pc \notin {"idle", "tfa_submit"}

\* Orders of the ledger ords that tenant t and buyer b have open.
OpenOrders(ords, t, b) ==
    {i \in 1..Len(ords) :
        ords[i].companyId = t /\ ords[i].clientPhone = b /\ ords[i].state # COMPLETED}

\* C21 (concurrent first messages): when a buyer's message starts being
\* handled while an earlier message of the same buyer to the same tenant is
\* still in flight on the only order the ledger holds for the pair (the
\* one that message found no order and created), and that order is not
\* COMPLETED, the step creates no order and leaves the by-buyer index alone,
\* the new handler works on the order the first one works on, and the pair
\* has that one open order and no other.
C21_ConcurrentCreation ==
    [][\A s, s2 \in Slots :
          LET t == tasks'[s].tenant
              b == tasks'[s].sender
          IN (/\ s # s2
              /\ tasks[s] = Idle /\ tasks'[s].pc \in {"hsi_extract", "ref_lookup"}
              /\ Shopping(tasks[s2])
              /\ tasks[s2].tenant = t
              /\ tasks[s2].sender = b
              /\ tasks[s2].order = ordersByClient[buildClientKey(t, b)]
              /\ {i \in Ledger : orders[i].companyId = t /\ orders[i].clientPhone = b}
                 = {tasks[s2].order}
              /\ orders[tasks[s2].order].state # COMPLETED)
             => /\ orders' = orders
                /\ ordersByClient' = ordersByClient
                /\ tasks'[s].order = tasks[s2].order
                /\ OpenOrders(orders', t, b) = {tasks[s2].order}]_vars

\* Two messages of one buyer are in flight at once and the ledger holds the
\* single order the first of them created.
C21_Witness ==
    /\ Len(orders) = 1
    /\ quota.message = 0
    /\ \E s, s2 \in Slots :
          /\ s # s2
          /\ Shopping(tasks[s]) /\ Shopping(tasks[s2])
          /\ tasks[s].order = 1 /\ tasks[s2].order = 1
          /\ tasks[s].sender = tasks[s2].sender
          /\ tasks[s].tenant = tasks[s2].tenant
    /\ ordersByClient[buildClientKey(orders[1].companyId, orders[1].clientPhone)] = 1

\* C22 (concurrent checkout): while only buyer messages have been handled,
\* the step in which processCheckout obtains a negotiation finds the order
\* in CART, so that a second checkout in flight for the same order issues no
\* second negotiation request and the order keeps the job of the single one.
C22_SingleNegotiation ==
    [][\A s \in Slots :
          (/\ tasks[s].pc = "pc_pay"
           /\ tasks'[s] = Idle
           /\ nJobs' # nJobs
           /\ quota.webhook = MaxPairWebhooks)
          => orders[tasks[s].order].state = CART]_vars

\* C23 (resolution precedence): on every channel a payload whose orderId
\* names an order of the ledger resolves to that order, whatever secondary
\* key (job id, reference) it carries.
C23_OrderIdFirst ==
    \A id \in Ledger :
       /\ legacyResolve(id) = id
       /\ \A j \in JobInputs : x402Resolve(j, id) = id
       /\ \A d \in DetailInputs : proxyResolve(id, d) = id

\* Success callbacks of the unified rail.
SuccessEvents == {"X402_PAYMENT_VERIFIED", "X402_PAYMENT_SETTLED",
                  "X402_PAYMENT_CONFIRMED", "FIAT_PAYMENT_CONFIRMED"}

\* C24 (settlement method on the first success callback): for an order with
\* no settlement method yet, a unified-rail VERIFIED, SETTLED or CONFIRMED
\* event of type ty leaves the order with method ty, and a legacy
\* VERIFICATION_RESULT success leaves it with method fiat.
C24_MethodOnFirstSuccess ==
    \A id \in Ledger :
       ~orders[id].x402Settlement.set =>
          /\ legacyOut(id, "VERIFICATION_RESULT", TRUE, "none", TRUE).orders[id].x402Settlement.type
             = "fiat"
          /\ \A ev \in SuccessEvents, ty \in Methods :
                x402Out(UnknownJob, id, ev, ty, "none", TRUE).orders[id].x402Settlement.type = ty

C26_RejectedCode ==
    [][\A s \in Slots :
          (tasks[s].pc = "tfa_submit" /\ tasks'[s] = Idle /\ last' = "tfa_rejected") =>
             /\ orders' = orders
             /\ orders'[tasks[s].order].awaitingTwoFa
             /\ attention' = attention
             /\ db' = db
             /\ twoFactorReply(FALSE) = "retry"]_vars

\* The rail has just refused a code: the order still awaits one in
\* VERIFYING and the tenant's flag is still raised in the store.
C26_Witness ==
    /\ last = "tfa_rejected"
    /\ dbEnabled
    /\ \E o \in Ledger :
          /\ orders[o].awaitingTwoFa
          /\ orders[o].state = VERIFYING
          /\ attention[orders[o].companyId]
    /\ \A s \in Slots : tasks[s] = Idle

\* Rail answers processCheckout does not go on with.
FailedRails == {"error", "settled"}

\* C27 (negotiation failure): when the rail answers the negotiation request
\* with an error or without negotiation data, the order keeps its state (an
\* order in CART stays in CART), job id, payment URL, negotiation and
\* amount, no other order changes, no job is recorded, and the buyer is
\* told to retry.
C27_NegotiationFailure ==
    [][\A s \in Slots :
          (tasks[s].pc = "pc_pay" /\ tasks'[s] = Idle /\ last' = "pay_failed") =>
             LET o == tasks[s].order
             IN /\ orders'[o].state = orders[o].state
                /\ orders'[o].x402JobId = orders[o].x402JobId
                /\ orders'[o].paymentUrl = orders[o].paymentUrl
                /\ orders'[o].x402Negotiation = orders[o].x402Negotiation
                /\ orders'[o].amount = orders[o].amount
                /\ \A i \in Ledger \ {o} : orders'[i] = orders[i]
                /\ nJobs' = nJobs
                /\ \A rail \in FailedRails : processCheckoutReply(rail) = "retry"]_vars

\* A checkout has just failed at the rail: the order is in CART with its
\* amount and without job, URL or negotiation.
C27_Witness ==
    /\ last = "pay_failed"
    /\ \E o \in Ledger :
          /\ orders[o].state = CART
          /\ orders[o].amount > 0
          /\ orders[o].x402JobId = 0 /\ orders[o].paymentUrl = 0 /\ orders[o].x402Negotiation = 0
    /\ \A s \in Slots : tasks[s] = Idle

\* C28 (failed inline verification): the "I paid" branch puts the order in
\* VERIFYING before it asks the rail; when the verification fails or reports
\* no successful settlement the step changes no order (the order stays in
\* VERIFYING, with no settlement record), delivers no payment-confirmed
\* notification, and the order is still resolved by a webhook with its id.
C28_VerificationFailure ==
    [][\A s \in Slots :
          /\ (tasks[s].pc = "hsi_ack" /\ tasks'[s].pc = "hsi_verify") =>
                orders'[tasks[s].order].state = VERIFYING
          /\ (tasks[s].pc = "hsi_verify" /\ tasks'[s] = Idle /\ last' = "verify_failed") =>
                LET o == tasks[s].order
                IN /\ orders' = orders
                   /\ orders[o].state = VERIFYING => orders'[o].state = VERIFYING
                   /\ sent' = sent
                   /\ legacyResolve(o) = o
                   /\ x402Resolve(UnknownJob, o) = o]_vars

\* An inline verification has just failed: the order is in VERIFYING with no
\* settlement record and nothing was announced to the buyer.
C28_Witness ==
    /\ last = "verify_failed"
    /\ \E o \in Ledger :
          /\ orders[o].state = VERIFYING
          /\ ~orders[o].x402Settlement.set
          /\ sent[o] = 0
    /\ \A s \in Slots : tasks[s] = Idle

\* C29 (reference stability and uniqueness): no step changes the reference
\* (details) of an order of the ledger, and no two orders of one tenant
\* carry the same reference.
C29_ReferenceStable ==
    [][/\ \A o \in Ledger : orders'[o].details = orders[o].details
       /\ \A i, j \in 1..Len(orders') :
             (i # j /\ orders'[i].companyId = orders'[j].companyId)
             => orders'[i].details # orders'[j].details]_vars

\* C30 (orders are kept): no step removes an order from the by-id map or
\* changes the id, tenant or buyer of one; every order of the ledger,
\* however long ago it was last touched and whatever its state, is what a
\* webhook or page confirmation carrying its orderId resolves to.
C30_OrdersKept ==
    [][/\ Len(orders') >= Len(orders)
       /\ \A o \in Ledger :
             /\ orders'[o].companyId = orders[o].companyId
             /\ orders'[o].clientPhone = orders[o].clientPhone
             /\ getById(o) = o /\ getById(o)' = o
             /\ legacyResolve(o) = o /\ legacyResolve(o)' = o
             /\ x402Resolve(UnknownJob, o) = o
             /\ proxyResolve(o, NoDetails) = o]_vars

\* A legacy webhook has just been applied to an order that was created
\* before the clock moved and has not reached COMPLETED.
C30_Witness ==
    /\ last = "legacy"
    /\ \E o \in Ledger :
          /\ orders[o].details.kind = "REF"
          /\ orders[o].details.n < now
          /\ orders[o].lastUpdate = now
          /\ orders[o].state \in {QR_SENT, VERIFYING}
    /\ \A s \in Slots : tasks[s] = Idle

\* C31 (tenant-scoped lookups): a page confirmation that echoes the
\* reference of an order, under an id no map knows, resolves to an order of
\* the tenant that order belongs to, never to an order of another tenant
\* that carries the same reference.
C31_TenantScoped ==
    \A i \in Ledger :
       LET o == proxyResolve(UnknownId, orders[i].details)
       IN o # 0 => orders[o].companyId = orders[i].companyId

\* C32 (syncDraft guard): when the store is disabled or the order has no
\* amount (ensureOrderUser has run before, so an enabled store has resolved
\* the buyer), the segments that call syncDraft write no row and leave the
\* order's durable id as it was; without the store the handler goes on:
\* handleShoppingIntent to its intent dispatch, processCheckout to the
\* negotiation, to which it gives the in-memory order id.
C32_SyncDraftGuard ==
    [][\A s \in Slots :
          LET o == tasks[s].order
              ord == orders[o]
          IN /\ (/\ tasks[s].pc \in {"hsi_sync", "ref_sync"}
                 /\ tasks'[s] # tasks[s]
                 /\ (~dbEnabled \/ ord.amount = 0))
                => /\ db' = db
                   /\ orders'[o].supabaseOrderId = ord.supabaseOrderId
                   /\ (tasks[s].pc = "hsi_sync" /\ ~dbEnabled) => tasks'[s].pc = "hsi_intent"
             /\ (/\ tasks[s].pc = "pc_pay"
                 /\ tasks'[s] = Idle
                 /\ ord.supabaseOrderId = 0
                 /\ (~dbEnabled \/ ~ord.userId \/ ord.amount = 0))
                => /\ db' = db
                   /\ orders'[o].supabaseOrderId = 0
                   /\ nJobs' # nJobs =>
                         (orders'[o].state = QR_SENT /\ orders'[o].paymentUrl = o)]_vars

\* With the store enabled a referred product without price has been stored
\* on an order of a resolved buyer: no row was written and the order has no
\* durable id.
C32_Witness ==
    /\ dbEnabled
    /\ db = <<>>
    /\ \E o \in Ledger :
          /\ orders[o].details = ProductDetails
          /\ orders[o].amount = 0
          /\ orders[o].userId
          /\ orders[o].supabaseOrderId = 0
    /\ \A s \in Slots : tasks[s] = Idle

\* C33 (durable sync is asynchronous to acknowledgment): the acknowledgment
\* of a unified-rail webhook does not wait for the durable status write of
\* the transition it caused: the webhook is acknowledged with 202 also in
\* the executions in which that write has not completed.
C33_AckNotAfterWrite ==
    \A j \in JobInputs, id \in IdInputs \cup {0}, ev \in X402Events, ty \in Methods :
       (x402Resolve(j, id) # 0 /\ x402FaultOk(j, id, ev, ty, "update"))
       => x402Out(j, id, ev, ty, "update", TRUE).http = ACCEPTED

\* C34 (completion clears the second-factor pause): no COMPLETED order has
\* awaitingTwoFa set, so handleTwoFactorReply never picks a COMPLETED order.
C34_CompletedNotAwaiting ==
    /\ \A o \in Ledger : orders[o].state = COMPLETED => ~orders[o].awaitingTwoFa
    /\ \A t \in Tenants : pendingOrder(t) # 0 => orders[pendingOrder(t)].state # COMPLETED

\* C35 (needs-attention flag consistency): with the store enabled, the
\* needs-attention flag of a tenant is raised in every state in which an
\* order of that tenant has awaitingTwoFa set.
C35_AttentionConsistent ==
    dbEnabled =>
       \A o \in Ledger : orders[o].awaitingTwoFa => attention[orders[o].companyId]

\* C36 (amount frozen once a negotiation exists): no step changes the amount
\* of an order that is in QR_SENT or VERIFYING before and after it and keeps
\* its rail job id.
C36_AmountFrozen ==
    [][\A o \in Ledger :
          (/\ orders[o].state \in {QR_SENT, VERIFYING}
           /\ orders'[o].state \in {QR_SENT, VERIFYING}
           /\ orders'[o].x402JobId = orders[o].x402JobId)
          => orders'[o].amount = orders[o].amount]_vars

\* C37 (the identifier given to the rail resolves back): the identifier
\* processCheckout sent to the rail (the one the payment URL ends with) is
\* one under which the by-id map holds that order, so a unified-rail webhook
\* or a page confirmation carrying only it resolves to the order.
C37_SentIdResolves ==
    \A o \in Ledger :
       orders[o].paymentUrl # 0 =>
          /\ getById(orders[o].paymentUrl) = o
          /\ x402Resolve(UnknownJob, orders[o].paymentUrl) = o
          /\ proxyResolve(orders[o].paymentUrl, NoDetails) = o

\* C38 (page confirmation requires backend success): a page request to which
\* the backend did not answer 200, or whose X-PAYMENT header is absent,
\* undecodable or names no order, changes no order, no flag and no row and
\* delivers no notification.
C38_PageNeedsSuccess ==
    [][(quota'.webhook # quota.webhook /\ last' = "proxy_refused") =>
          /\ orders' = orders
          /\ ordersByClient' = ordersByClient
          /\ attention' = attention
          /\ db' = db
          /\ sent' = sent]_vars

\* A page request has just been relayed without effect while an order was
\* waiting for its payment.
C38_Witness ==
    /\ last = "proxy_refused"
    /\ \E o \in Ledger :
          /\ orders[o].state = QR_SENT
          /\ orders[o].x402JobId # 0
          /\ sent[o] = 0
    /\ \A s \in Slots : tasks[s] = Idle

====
